---- MODULE Spec2Model ----
(***************************************************************************)
(* A model of two serializers of pdf-lib:                                  *)
(*   - PDFXRefStream (src/core/pdf-structures/PDFXRefStream.ts), the       *)
(*     cross-reference stream whose field widths are derived from its      *)
(*     entries;                                                            *)
(*   - PNGXObjectFactory (src/core/pdf-structures/factories/               *)
(*     PNGXObjectFactory.js), which embeds a decoded PNG as image XObjects.*)
(* Text is modelled as a sequence of one-character strings, a byte buffer  *)
(* as a sequence of numbers.                                               *)
(***************************************************************************)
EXTENDS Integers, Sequences, FiniteSets, TLC

VARIABLES
  entries,      \* PDFXRefStream.entries: rows [first, second, third]
  dictionary,   \* the W and Length entries of PDFXRefStream.dictionary
  sizeResult,   \* outcome of the latest bytesSize() since the last add
  writeResult,  \* outcome of the latest copyBytesInto() since the last add
  image,        \* PNGXObjectFactory.image: the decoded PNG
  imgData,      \* PNGXObjectFactory.imgData
  alphaChannel, \* PNGXObjectFactory.alphaChannel
  xObjDict,     \* PNGXObjectFactory.xObjDict
  registered,   \* the objects of the document, in order of registration
  registeredBefore, \* the objects of the document when embedImageIn began
  embedResult   \* outcome of embedImageIn()

xrefVars == <<entries, dictionary, sizeResult, writeResult>>

pngVars == <<image, imgData, alphaChannel, xObjDict, registered,
             registeredBefore, embedResult>>

vars == <<xrefVars, pngVars>>

(***************************************************************************)
(* Bounds and input domains                                                *)
(***************************************************************************)
\* Longest entry list of Spec.
MaxEntries == 2

\* Longest entry list of SpecExample.
MaxExampleEntries == 3

\* Values the add operations of Spec are called with: FieldValues for the
\* second field of a row, ThirdValues for the third.
FieldValues == {0, 255, 65536, 16777215}

ThirdValues == {0, 65536}

\* Rows the add operations of SpecExample are called with: the rows of the
\* worked example and three rows at the boundaries.
ExampleEntries ==
  { <<0, 0, 65535>>, <<1, 1000, 0>>, <<2, 5, 3>>,
    <<0, 0, 0>>, <<1, 65536, 255>>, <<2, 255, 16777215>> }

(***************************************************************************)
(* JavaScript and lodash helpers                                           *)
(***************************************************************************)
\* lodash max() of an empty array is undefined; no row value is negative.
Undefined == -1

RECURSIVE maxFrom(_, _)
maxFrom(xs, k) ==
  IF k > Len(xs) THEN Undefined
  ELSE LET rest == maxFrom(xs, k + 1)
       IN  IF xs[k] > rest THEN xs[k] ELSE rest

max(xs) == maxFrom(xs, 1)

HexDigit == <<"0", "1", "2", "3", "4", "5", "6", "7",
              "8", "9", "A", "B", "C", "D", "E", "F">>

\* Number.prototype.toString(radix) of a non-negative integer, as characters.
RECURSIVE toStringRadix(_, _, _)
toStringRadix(n, radix, digits) ==
  IF n < radix THEN <<digits[n + 1]>>
  ELSE toStringRadix(n \div radix, radix, digits) \o <<digits[(n % radix) + 1]>>

\* n.toString(16).toUpperCase()
toUpperHex(n) == toStringRadix(n, 16, HexDigit)

\* n.toString(2).length: the number of binary digits of n, one for 0.
RECURSIVE binaryLength(_)
binaryLength(n) == IF n < 2 THEN 1 ELSE 1 + binaryLength(n \div 2)

\* Math.ceil(n / 8) for a non-negative integer n.
ceilDiv8(n) == (n + 7) \div 8

RECURSIVE repeat(_, _)
repeat(ch, n) == IF n <= 0 THEN <<>> ELSE <<ch>> \o repeat(ch, n - 1)

\* lodash padStart(s, length, ch): s is returned as it is when long enough.
padStart(s, length, ch) ==
  IF Len(s) >= length THEN s ELSE repeat(ch, length - Len(s)) \o s

\* Array.prototype.join of character sequences.
RECURSIVE joinFrom(_, _, _)
joinFrom(parts, sep, k) ==
  IF k > Len(parts) THEN <<>>
  ELSE IF k = Len(parts) THEN parts[k]
  ELSE parts[k] \o sep \o joinFrom(parts, sep, k + 1)

join(parts, sep) == joinFrom(parts, sep, 1)

DecDigit == <<"0", "1", "2", "3", "4", "5", "6", "7", "8", "9">>

\* String(n) of a non-negative integer.
toDecimal(n) == toStringRadix(n, 10, DecDigit)

(***************************************************************************)
(* PDFXRefStream: pure parts                                               *)
(***************************************************************************)
column(es, c) == [i \in 1..Len(es) |-> es[i][c]]

\* A call either returns a value or throws.
Returned(v) == [threw |-> FALSE, value |-> v]
Threw(v) == [threw |-> TRUE, value |-> v]

\* byteWidth rounding down instead of up: C2 does not hold of it.
byteWidthFloor(col) ==
  IF max(col) = Undefined THEN Threw(0)
  ELSE Returned(binaryLength(max(col)) \div 8)

\* byteWidth taking the largest value of no rows to be 0: C4 does not hold
\* of it.
byteWidthOfNothing(col) ==
  Returned(ceilDiv8(binaryLength(IF max(col) = Undefined THEN 0 ELSE max(col))))

\* byteWidth counting no binary digit for 0: the amended C9 does not hold
\* of it.
byteWidthZeroBits(col) ==
  IF max(col) = Undefined THEN Threw(0)
  ELSE IF max(col) = 0 THEN Returned(0)
  ELSE Returned(ceilDiv8(binaryLength(max(col))))

\* Math.ceil(max(column)!.toString(2).length / 8); max() of no rows is
\* undefined and undefined.toString throws a TypeError.
byteWidth(col) ==
  IF max(col) = Undefined THEN Threw(0)
  ELSE Returned(ceilDiv8(binaryLength(max(col))))

maxEntryByteWidths(es) ==
  LET w1 == byteWidth(column(es, 1))
      w2 == byteWidth(column(es, 2))
      w3 == byteWidth(column(es, 3))
  IN  IF w1.threw \/ w2.threw \/ w3.threw THEN Threw(<<>>)
      ELSE Returned(<<w1.value, w2.value, w3.value>>)

\* entryToString without padding: C3 does not hold of it.
entryToStringUnpadded(e, entryWidths) ==
  join(<<toUpperHex(e[1]), toUpperHex(e[2]), toUpperHex(e[3])>>, <<" ">>)

entryToString(e, entryWidths) ==
  join(<<padStart(toUpperHex(e[1]), entryWidths[1], "0"),
         padStart(toUpperHex(e[2]), entryWidths[2], "0"),
         padStart(toUpperHex(e[3]), entryWidths[3], "0")>>, <<" ">>)

entriesToString(es) ==
  LET w == maxEntryByteWidths(es)
  IN  IF w.threw THEN Threw(<<>>)
      ELSE LET entryWidths == [c \in 1..3 |-> w.value[c] * 2]
           IN  Returned(join([i \in 1..Len(es) |->
                                entryToString(es[i], entryWidths)], <<"\n">>))

\* The dictionary keeps Type and Filter from create(); W and Length are
\* absent until updateDictionary sets them.
NoWidths == <<>>
NoLength == Undefined

\* updateDictionary keeping a W it has set before: C8 does not hold of it.
updateDictionaryKeepingW(d, es) ==
  LET w == maxEntryByteWidths(es)
  IN  IF w.threw THEN Threw(d)
      ELSE LET d1 == IF d.W = NoWidths THEN [d EXCEPT !.W = w.value] ELSE d
               s  == entriesToString(es)
           IN  IF s.threw THEN Threw(d1)
               ELSE Returned([d1 EXCEPT !.Length = Len(s.value)])

updateDictionary(d, es) ==
  LET w == maxEntryByteWidths(es)
  IN  IF w.threw THEN Threw(d)
      ELSE LET d1 == [d EXCEPT !.W = w.value]
               s  == entriesToString(es)
           IN  IF s.threw THEN Threw(d1)
               ELSE Returned([d1 EXCEPT !.Length = Len(s.value)])

(***************************************************************************)
(* The dictionary and buffer interfaces PDFXRefStream is written against   *)
(***************************************************************************)
\* "<<\n/Type /XRef\n/Filter /ASCIIHexDecode\n"
DictionaryHead ==
  <<"<", "<", "\n", "/", "T", "y", "p", "e", " ", "/", "X", "R", "e", "f",
    "\n", "/", "F", "i", "l", "t", "e", "r", " ", "/", "A", "S", "C", "I",
    "I", "H", "e", "x", "D", "e", "c", "o", "d", "e", "\n">>

\* "/W [ "
WKey ==
  <<"/", "W", " ", "[", " ">>

\* "/Length "
LengthKey ==
  <<"/", "L", "e", "n", "g", "t", "h", " ">>

\* The text of the dictionary: its fixed entries, then W and Length in the
\* order updateDictionary first set them, then ">>".
dictionaryToString(d) ==
  DictionaryHead
  \o (IF d.W = NoWidths THEN <<>>
      ELSE WKey
           \o join([c \in 1..Len(d.W) |-> toDecimal(d.W[c]) \o <<" ">>], <<>>)
           \o <<"]", "\n">>)
  \o (IF d.Length = NoLength THEN <<>>
      ELSE LengthKey \o toDecimal(d.Length) \o <<"\n">>)
  \o <<">", ">">>

\* PDFDictionary.bytesSize()
dictionaryBytesSize(d) == Len(dictionaryToString(d))

\* PDFDictionary.copyBytesInto(buffer): the bytes it puts into the buffer.
dictionaryCopyBytes(d) == dictionaryToString(d)

\* PDFStream.validateDictionary(): a stream dictionary must hold Length.
validateDictionary(d) == d.Length # NoLength

\* addStringToBuffer(str, buffer): one byte per character.
addStringToBuffer(str, written) == written \o str

(***************************************************************************)
(* PDFXRefStream: operations                                               *)
(***************************************************************************)
\* "\nstream\n"
StreamKeyword ==
  <<"\n", "s", "t", "r", "e", "a", "m", "\n">>

\* "\nendstream"
EndStreamKeyword ==
  <<"\n", "e", "n", "d", "s", "t", "r", "e", "a", "m">>

NotCalled == [status |-> "none", value |-> 0, bytes |-> <<>>]

push(e) ==
  /\ entries' = Append(entries, e)
  /\ sizeResult' = NotCalled
  /\ writeResult' = NotCalled
  /\ UNCHANGED dictionary

addFreeObjectEntry(nextFreeObjectNum, generationNum) ==
  push(<<0, nextFreeObjectNum, generationNum>>)

addUncompressedObjectEntry(byteOffset, generationNum) ==
  push(<<1, byteOffset, generationNum>>)

addCompressedObjectEntry(objectStreamNum, index) ==
  push(<<2, objectStreamNum, index>>)

\* bytesSizeValue counting 6 bytes for "stream\n": C1 does not hold of it.
bytesSizeValueShort(d, es) ==
  dictionaryBytesSize(d) + 1 + 6 + Len(entriesToString(es).value) + 10

\* The value bytesSize() returns once updateDictionary() has run.
bytesSizeValue(d, es) ==
  dictionaryBytesSize(d) + 1 + 7 + Len(entriesToString(es).value) + 10

bytesSize ==
  LET u == updateDictionary(dictionary, entries)
  IN  /\ dictionary' = u.value
      /\ sizeResult' =
           IF u.threw THEN [status |-> "threw", value |-> 0, bytes |-> <<>>]
           ELSE [status |-> "ok", value |-> bytesSizeValue(u.value, entries),
                 bytes |-> <<>>]
      /\ UNCHANGED <<entries, writeResult>>

\* The bytes copyBytesInto() puts into the buffer once the dictionary is
\* updated and validated.
copiedBytes(d, es) ==
  LET b1 == dictionaryCopyBytes(d)
      b2 == addStringToBuffer(StreamKeyword, b1)
      b3 == addStringToBuffer(entriesToString(es).value, b2)
  IN  addStringToBuffer(EndStreamKeyword, b3)

copyBytesInto ==
  LET u == updateDictionary(dictionary, entries)
  IN  /\ dictionary' = u.value
      /\ writeResult' =
           IF u.threw \/ ~validateDictionary(u.value)
           THEN [status |-> "threw", value |-> 0, bytes |-> <<>>]
           ELSE LET b == copiedBytes(u.value, entries)
                IN  [status |-> "ok", value |-> Len(b), bytes |-> b]
      /\ UNCHANGED <<entries, sizeResult>>

XRefInit ==
  /\ entries = <<>>
  /\ dictionary = [W |-> NoWidths, Length |-> NoLength]
  /\ sizeResult = NotCalled
  /\ writeResult = NotCalled

(***************************************************************************)
(* PNGXObjectFactory: buffers, the compressor and the registry             *)
(***************************************************************************)
\* A payload: `length` bytes that are either `bytes` themselves ("plain")
\* or the compressor's output for `bytes` ("deflate").
plain(b) == [encoding |-> "plain", bytes |-> b, length |-> Len(b)]

\* pako.deflate(b): the library decides how many bytes come out.
deflate(b, outLength) ==
  [encoding |-> "deflate", bytes |-> b, length |-> outLength]

\* new Uint8Array(n)
newUint8Array(n) == [k \in 1..n |-> 0]

\* A typed array stores undefined as 0 and any other number modulo 256.
toUint8(v) == IF v = Undefined THEN 0 ELSE v % 256

\* arr[k] of an array: undefined past its end. k counts from 0.
getIndex(arr, k) == IF k < Len(arr) THEN arr[k + 1] ELSE Undefined

\* arr[k] = v on a typed array: a write past its end is dropped.
setIndex(arr, k, v) ==
  IF k < Len(arr) THEN [arr EXCEPT ![k + 1] = toUint8(v)] ELSE arr

\* PDFDocument.register(object): the object gets the next identity, which
\* is its position in the document's index.
register(objects, object) == Append(objects, object)

lastReference(objects) == Len(objects)

NoReference == 0

\* An object some earlier call registered.
OtherObject ==
  [kind |-> "other", dict |-> [Length |-> NoLength], content |-> plain(<<>>)]

(***************************************************************************)
(* PNGXObjectFactory: embedImageIn and its helpers                         *)
(***************************************************************************)
NoDecodeParms ==
  [present |-> FALSE, Predictor |-> 0, Colors |-> 0, BitsPerComponent |-> 0,
   Columns |-> 0]

NoColorSpace == [kind |-> "none", name |-> "", hival |-> 0, palette |-> 0]

\* The dictionary embedImageIn starts from, with DecodeParms for an image
\* without alpha channel.
newXObjDict(img) ==
  [BitsPerComponent |-> img.bits,
   Width |-> img.width,
   Height |-> img.height,
   DecodeParms |->
     IF ~img.hasAlphaChannel
     THEN [present |-> TRUE, Predictor |-> 15, Colors |-> img.colors,
           BitsPerComponent |-> img.bits, Columns |-> img.width]
     ELSE NoDecodeParms,
   ColorSpace |-> NoColorSpace,
   SMask |-> NoReference,
   Length |-> NoLength]

\* f holds the fields of the factory and the document's objects.
\* setColorSpace: the palette stream is registered when there is a palette.
setColorSpace(img, f) ==
  IF Len(img.palette) = 0
  THEN [f EXCEPT !.xObjDict.ColorSpace =
          [kind |-> "name", name |-> img.colorSpace, hival |-> 0,
           palette |-> NoReference]]
  ELSE LET paletteStream ==
             [kind |-> "palette",
              dict |-> [Length |-> Len(img.palette)],
              content |-> plain(img.palette)]
           objects == register(f.registered, paletteStream)
       IN  [f EXCEPT !.registered = objects,
                     !.xObjDict.ColorSpace =
                       [kind |-> "indexed", name |-> "DeviceRGB",
                        hival |-> (Len(img.palette) \div 3) - 1,
                        palette |-> lastReference(objects)]]

\* finalize registering a soft mask whether or not there is an alpha
\* channel: C5 does not hold of it.
finalizeAlwaysMask(img, f, alphaOut) ==
  LET smask ==
        [kind |-> "smask",
         dict |-> [Length |-> Len(f.alphaChannel.bytes)],
         content |-> deflate(f.alphaChannel.bytes, alphaOut)]
      withMask == register(f.registered, smask)
      f1 == [f EXCEPT !.registered = withMask,
                      !.xObjDict.SMask = lastReference(withMask)]
      f2 == [f1 EXCEPT !.xObjDict.Length = f1.imgData.length]
      xObj == [kind |-> "image", dict |-> f2.xObjDict, content |-> f2.imgData]
      objects == register(f2.registered, xObj)
  IN  Returned([f2 EXCEPT !.registered = objects,
                          !.result = lastReference(objects)])

finalize(img, f, alphaOut) ==
  LET f1 ==
        IF f.alphaChannel.present
        THEN LET smask ==
                   [kind |-> "smask",
                    dict |-> [Length |-> Len(f.alphaChannel.bytes)],
                    content |-> deflate(f.alphaChannel.bytes, alphaOut)]
                 objects == register(f.registered, smask)
             IN  [f EXCEPT !.registered = objects,
                           !.xObjDict.SMask = lastReference(objects)]
        ELSE f
      f2 == [f1 EXCEPT !.xObjDict.Length = f1.imgData.length]
      xObj == [kind |-> "image", dict |-> f2.xObjDict, content |-> f2.imgData]
      objects == register(f2.registered, xObj)
  IN  Returned([f2 EXCEPT !.registered = objects,
                          !.result = lastReference(objects)])

\* image.decodePixelsSync()
decodePixelsSync(img) ==
  IF img.decodeThrows THEN Threw(<<>>) ELSE Returned(img.pixels)

\* The while loop of splitAlphaChannel, from position i of pixels: three
\* bytes go to imgData and one to alphaChannel in every round.
RECURSIVE splitLoop(_, _, _, _, _, _)
splitLoop(pixels, i, p, a, data, alpha) ==
  IF ~(i < Len(pixels)) THEN [imgData |-> data, alphaChannel |-> alpha]
  ELSE LET d1 == setIndex(data, p, getIndex(pixels, i))
           d2 == setIndex(d1, p + 1, getIndex(pixels, i + 1))
           d3 == setIndex(d2, p + 2, getIndex(pixels, i + 2))
           a1 == setIndex(alpha, a, getIndex(pixels, i + 3))
       IN  splitLoop(pixels, i + 4, p + 3, a + 1, d3, a1)

splitAlphaChannel(img, f, colorOut, alphaOut) ==
  LET decoded == decodePixelsSync(img)
  IN  IF decoded.threw THEN Threw(f)
      ELSE LET colorByteSize == (img.colors * img.bits) \div 8
               pixelCount == img.width * img.height
               split == splitLoop(decoded.value, 0, 0, 0,
                                  newUint8Array(pixelCount * colorByteSize),
                                  newUint8Array(pixelCount))
               f1 == [f EXCEPT
                        !.alphaChannel =
                          [present |-> TRUE, bytes |-> split.alphaChannel],
                        !.imgData = deflate(split.imgData, colorOut)]
           IN  finalize(img, f1, alphaOut)

\* pixels.forEach((pixel, idx) => alphaChannel[idx] = transparency[pixel])
RECURSIVE indexedLoop(_, _, _, _)
indexedLoop(pixels, idx, transparency, alpha) ==
  IF idx >= Len(pixels) THEN alpha
  ELSE indexedLoop(pixels, idx + 1, transparency,
                   setIndex(alpha, idx,
                            getIndex(transparency, pixels[idx + 1])))

loadIndexedAlphaChannel(img, f, alphaOut) ==
  LET decoded == decodePixelsSync(img)
  IN  IF decoded.threw THEN Threw(f)
      ELSE LET alpha == indexedLoop(decoded.value, 0,
                                    img.transparency.indexed,
                                    newUint8Array(img.width * img.height))
               f1 == [f EXCEPT !.alphaChannel =
                                  [present |-> TRUE, bytes |-> alpha]]
           IN  finalize(img, f1, alphaOut)

\* embedImageIn(document): what it leaves in the factory and the document,
\* and whether it threw.
embedImageInOutcome(img, f, colorOut, alphaOut) ==
  LET f1 == [f EXCEPT !.xObjDict = newXObjDict(img)]
      f2 == setColorSpace(img, f1)
  IN  IF img.transparency.kind = "indexed"
      THEN loadIndexedAlphaChannel(img, f2, alphaOut)
      ELSE IF img.hasAlphaChannel
      THEN splitAlphaChannel(img, f2, colorOut, alphaOut)
      ELSE finalize(img, f2, alphaOut)

(***************************************************************************)
(* The decoded images a factory is built for                               *)
(***************************************************************************)
\* Most pixels of an image.
MaxPixels == 2

Dimensions ==
  {d \in (1..MaxPixels) \X (1..MaxPixels) : d[1] * d[2] <= MaxPixels}

\* PLTE chunks of one and of two colours.
Palettes == {<<10, 20, 30>>, <<10, 20, 30, 40, 50, 60>>}

\* The compressed, pre-filtered IDAT bytes png-js hands over as imgData.
RawDatas == {<<7>>, <<7, 8, 9>>}

\* Decoded pixel streams of n bytes: every byte of a stream is different,
\* so a byte that lands in the wrong place shows.
PixelStreams(n) == {[j \in 1..n |-> base + j] : base \in {16, 128}}

\* Alpha values a tRNS chunk gives the palette entries.
AlphaValues == {0, 128, 255}

NoTransparency == [kind |-> "none", indexed |-> <<>>]

Image(type, dim, colors, space, alpha, pal, tr, raw, px, throws) ==
  [colorType |-> type, width |-> dim[1], height |-> dim[2], bits |-> 8,
   colors |-> colors, colorSpace |-> space, hasAlphaChannel |-> alpha,
   palette |-> pal, transparency |-> tr, imgData |-> raw, pixels |-> px,
   decodeThrows |-> throws]

\* Colour type 0: grayscale, with or without a tRNS colour key.
GrayImages ==
  {Image(0, d, 1, "DeviceGray", FALSE, <<>>, t, raw,
         [j \in 1..(d[1] * d[2]) |-> 16 + j], throws) :
     d \in Dimensions,
     t \in {NoTransparency, [kind |-> "grayscale", indexed |-> <<>>]},
     raw \in RawDatas, throws \in BOOLEAN}

\* Colour type 2: RGB, with or without a suggested palette or colour key.
RGBImages ==
  {Image(2, d, 3, "DeviceRGB", FALSE, pal, t, raw,
         [j \in 1..(3 * d[1] * d[2]) |-> 16 + j], throws) :
     d \in Dimensions, pal \in {<<>>} \cup Palettes,
     t \in {NoTransparency, [kind |-> "rgb", indexed |-> <<>>]},
     raw \in RawDatas, throws \in BOOLEAN}

\* Colour type 3 without tRNS: one palette index per pixel.
IndexedImages ==
  UNION {
    {Image(3, d, 1, "DeviceRGB", FALSE, pal, NoTransparency, raw, px, throws) :
       px \in [1..(d[1] * d[2]) -> 0..((Len(pal) \div 3) - 1)],
       raw \in RawDatas, throws \in BOOLEAN} :
    d \in Dimensions, pal \in Palettes}

\* Colour type 3 with tRNS: an alpha value for every palette entry.
IndexedAlphaImages ==
  UNION {
    {Image(3, d, 1, "DeviceRGB", FALSE, pal,
           [kind |-> "indexed", indexed |-> table], raw, px, throws) :
       px \in [1..(d[1] * d[2]) -> 0..((Len(pal) \div 3) - 1)],
       table \in [1..(Len(pal) \div 3) -> AlphaValues],
       raw \in RawDatas, throws \in BOOLEAN} :
    d \in Dimensions, pal \in Palettes}

\* Colour type 4: gray and alpha byte for every pixel.
GrayAlphaImages ==
  UNION {
    {Image(4, d, 1, "DeviceGray", TRUE, <<>>, NoTransparency, <<7>>, px,
           throws) :
       px \in PixelStreams(2 * d[1] * d[2]), throws \in BOOLEAN} :
    d \in Dimensions}

\* Colour type 6: red, green, blue and alpha byte for every pixel.
RGBAlphaImages ==
  UNION {
    {Image(6, d, 3, "DeviceRGB", TRUE, pal, NoTransparency, <<7>>, px,
           throws) :
       px \in PixelStreams(4 * d[1] * d[2]), throws \in BOOLEAN,
       pal \in {<<>>, <<10, 20, 30>>}} :
    d \in Dimensions}

Images ==
  GrayImages \cup RGBImages \cup IndexedImages \cup IndexedAlphaImages
    \cup GrayAlphaImages \cup RGBAlphaImages

\* Byte counts pako.deflate may return: the count is the library's choice
\* and is not the count it was given.
DeflateLengths == {8, 11}

(***************************************************************************)
(* PNGXObjectFactory: state and the embedImageIn step                      *)
(***************************************************************************)
NoXObjDict ==
  [BitsPerComponent |-> 0, Width |-> 0, Height |-> 0,
   DecodeParms |-> NoDecodeParms, ColorSpace |-> NoColorSpace,
   SMask |-> NoReference, Length |-> NoLength]

NoAlphaChannel == [present |-> FALSE, bytes |-> <<>>]

NotEmbedded == [status |-> "none", reference |-> NoReference]

\* The factory as its constructor leaves it, for an image of `images`, and
\* a document that holds no object or one.
Constructed(images) ==
  /\ image \in images
  /\ imgData = plain(image.imgData)
  /\ alphaChannel = NoAlphaChannel
  /\ xObjDict = NoXObjDict
  /\ registered \in {<<>>, <<OtherObject>>}
  /\ registeredBefore = registered
  /\ embedResult = NotEmbedded

embedImageIn ==
  /\ embedResult.status = "none"
  /\ \E colorOut \in DeflateLengths, alphaOut \in DeflateLengths :
       LET f == [imgData |-> imgData, alphaChannel |-> alphaChannel,
                 xObjDict |-> xObjDict, registered |-> registered,
                 result |-> NoReference]
           r == embedImageInOutcome(image, f, colorOut, alphaOut)
       IN  /\ imgData' = r.value.imgData
           /\ alphaChannel' = r.value.alphaChannel
           /\ xObjDict' = r.value.xObjDict
           /\ registered' = r.value.registered
           /\ registeredBefore' = registered
           /\ embedResult' =
                IF r.threw THEN [status |-> "threw", reference |-> NoReference]
                ELSE [status |-> "ok", reference |-> r.value.result]
  /\ UNCHANGED image

(***************************************************************************)
(* Specifications                                                          *)
(***************************************************************************)
\* Spec: a cross-reference stream whose add operations take every
\* combination of FieldValues and ThirdValues.
Init ==
  /\ XRefInit
  /\ Constructed({Image(0, <<1, 1>>, 1, "DeviceGray", FALSE, <<>>,
                        NoTransparency, <<7>>, <<17>>, FALSE)})
  /\ registered = <<>>

AddFree ==
  /\ Len(entries) < MaxEntries
  /\ \E n \in FieldValues, g \in ThirdValues : addFreeObjectEntry(n, g)
  /\ UNCHANGED pngVars

AddUncompressed ==
  /\ Len(entries) < MaxEntries
  /\ \E o \in FieldValues, g \in ThirdValues : addUncompressedObjectEntry(o, g)
  /\ UNCHANGED pngVars

AddCompressed ==
  /\ Len(entries) < MaxEntries
  /\ \E s \in FieldValues, i \in ThirdValues : addCompressedObjectEntry(s, i)
  /\ UNCHANGED pngVars

BytesSize == bytesSize /\ UNCHANGED pngVars

CopyBytesInto == copyBytesInto /\ UNCHANGED pngVars

Next == AddFree \/ AddUncompressed \/ AddCompressed \/ BytesSize \/ CopyBytesInto

Spec == Init /\ [][Next]_vars

\* SpecExample: the same stream, its add operations taking ExampleEntries.
ExampleAddFree ==
  /\ Len(entries) < MaxExampleEntries
  /\ \E e \in ExampleEntries : e[1] = 0 /\ addFreeObjectEntry(e[2], e[3])
  /\ UNCHANGED pngVars

ExampleAddUncompressed ==
  /\ Len(entries) < MaxExampleEntries
  /\ \E e \in ExampleEntries : e[1] = 1 /\ addUncompressedObjectEntry(e[2], e[3])
  /\ UNCHANGED pngVars

ExampleAddCompressed ==
  /\ Len(entries) < MaxExampleEntries
  /\ \E e \in ExampleEntries : e[1] = 2 /\ addCompressedObjectEntry(e[2], e[3])
  /\ UNCHANGED pngVars

NextExample ==
  \/ ExampleAddFree
  \/ ExampleAddUncompressed
  \/ ExampleAddCompressed
  \/ BytesSize
  \/ CopyBytesInto

SpecExample == Init /\ [][NextExample]_vars

\* SpecPNG: one factory for any image of Images, embedded once.
InitPNG == XRefInit /\ Constructed(Images)

EmbedImageIn == embedImageIn /\ UNCHANGED xrefVars

NextPNG == EmbedImageIn

SpecPNG == InitPNG /\ [][NextPNG]_vars

(***************************************************************************)
(* What the claims are stated with                                         *)
(***************************************************************************)
\* The largest value of column c of a non-empty table.
ColumnMax(es, c) ==
  CHOOSE m \in {es[i][c] : i \in 1..Len(es)} :
    \A i \in 1..Len(es) : es[i][c] <= m

\* The least number of bytes, at least one, that hold m.
LeastBytes(m) == CHOOSE w \in 1..4 : 256^w > m /\ (w = 1 \/ 256^(w - 1) <= m)

ExpectedWidths(es) == [c \in 1..3 |-> LeastBytes(ColumnMax(es, c))]

\* Characters of a table of n rows: three fields of two hex digits a byte,
\* two spaces in a row, a newline between rows.
ExpectedLength(es) ==
  LET w == ExpectedWidths(es)
  IN  Len(es) * (2 * w[1] + 2 * w[2] + 2 * w[3] + 2) + (Len(es) - 1)

SizeOk == sizeResult.status = "ok"

WriteOk == writeResult.status = "ok"

\* The payload among the bytes copyBytesInto wrote: what follows the
\* dictionary and "\nstream\n" and precedes "\nendstream".
WrittenPayload ==
  LET from == dictionaryBytesSize(dictionary) + 8 + 1
      to   == Len(writeResult.bytes) - 10
  IN  IF from <= to + 1 /\ to <= Len(writeResult.bytes) /\ to >= 0
      THEN SubSeq(writeResult.bytes, from, to) ELSE <<>>

\* A reader of the payload that knows only the widths of the header.
RECURSIVE SplitRows(_, _)
SplitRows(s, row) ==
  IF s = <<>> THEN <<row>>
  ELSE IF Head(s) = "\n" THEN <<row>> \o SplitRows(Tail(s), <<>>)
  ELSE SplitRows(Tail(s), Append(row, Head(s)))

HexValue(ch) ==
  IF \E v \in 0..15 : HexDigit[v + 1] = ch
  THEN CHOOSE v \in 0..15 : HexDigit[v + 1] = ch
  ELSE -1

RECURSIVE ReadHex(_, _)
ReadHex(s, acc) ==
  IF s = <<>> THEN acc
  ELSE IF HexValue(Head(s)) < 0 THEN -1
  ELSE ReadHex(Tail(s), acc * 16 + HexValue(Head(s)))

ReadField(s) == IF s = <<>> THEN -1 ELSE ReadHex(s, 0)

ReadRow(row, W) ==
  LET a == 2 * W[1]
      b == 2 * W[2]
      c == 2 * W[3]
  IN  IF Len(W) # 3 \/ Len(row) # a + b + c + 2 THEN <<-1, -1, -1>>
      ELSE IF row[a + 1] # " " \/ row[a + b + 2] # " " THEN <<-1, -1, -1>>
      ELSE <<ReadField(SubSeq(row, 1, a)),
             ReadField(SubSeq(row, a + 2, a + b + 1)),
             ReadField(SubSeq(row, a + b + 3, a + b + c + 2))>>

ReadTable(payload, W) ==
  LET rows == SplitRows(payload, <<>>)
  IN  [i \in 1..Len(rows) |-> ReadRow(rows[i], W)]

\* The characters of field c of a written row, fields being twice the
\* widths W long with one space between them.
RowField(row, W, c) ==
  LET from == IF c = 1 THEN 1
              ELSE IF c = 2 THEN 2 * W[1] + 2
              ELSE 2 * W[1] + 2 * W[2] + 3
      to == from + 2 * W[c] - 1
  IN  IF to <= Len(row) THEN SubSeq(row, from, to) ELSE <<>>

AllZero(es, c) == \A i \in 1..Len(es) : es[i][c] = 0

(***************************************************************************)
(* Claims about PDFXRefStream                                              *)
(***************************************************************************)
\* C1: when bytesSize() and copyBytesInto() have both succeeded on the same
\* entries, copyBytesInto wrote exactly the number of bytes bytesSize
\* returned, and that number is the dictionary's bytes, 8 bytes of
\* "\nstream\n", the characters of the rendered rows and 10 bytes of
\* "\nendstream".
C1_ByteBudget ==
  (SizeOk /\ WriteOk) =>
    /\ Len(writeResult.bytes) = sizeResult.value
    /\ sizeResult.value =
         dictionaryBytesSize(dictionary) + 8 + ExpectedLength(entries) + 10

C1_Witness ==
  /\ SizeOk /\ WriteOk
  /\ Len(entries) = 2
  /\ ExpectedWidths(entries) = <<1, 3, 3>>

\* C2: for a non-empty table every derived width w of a column with
\* largest value m satisfies 2^(8w) > m and, when m > 0, 2^(8(w-1)) <= m;
\* the width is that of the whole column, also in the header written.
C2_WidthBounds ==
  entries # <<>> =>
    LET w == maxEntryByteWidths(entries)
    IN  /\ ~w.threw
        /\ \A c \in 1..3 :
             LET m == ColumnMax(entries, c)
             IN  /\ 2^(8 * w.value[c]) > m
                 /\ m > 0 => 2^(8 * (w.value[c] - 1)) <= m
        /\ (SizeOk \/ WriteOk) => dictionary.W = w.value

C2_Witness ==
  /\ WriteOk
  /\ Len(entries) = 2
  /\ entries[1][2] = 16777215 /\ entries[2][2] = 255
  /\ dictionary.W[2] = 3

\* C3: reading the written payload back, rows split on newlines and fields
\* of twice the header's widths read as hexadecimal numbers, gives the
\* entries in the order they were added.
C3_RoundTrip ==
  WriteOk => ReadTable(WrittenPayload, dictionary.W) = entries

C3_Witness ==
  /\ WriteOk
  /\ Len(entries) = 3
  /\ entries[1][1] = 2 /\ entries[2][1] = 0 /\ entries[3][1] = 1
  /\ entries[1][2] > entries[2][2]
  /\ entries[3][3] = 255

\* C4: with no entry added, bytesSize() and copyBytesInto() throw, nothing
\* is written and the dictionary holds neither W nor Length.
C4_EmptyFails ==
  entries = <<>> =>
    /\ ~SizeOk
    /\ ~WriteOk
    /\ writeResult.bytes = <<>>
    /\ dictionary.W = NoWidths
    /\ dictionary.Length = NoLength

C4_Witness ==
  /\ entries = <<>>
  /\ sizeResult.status = "threw"
  /\ writeResult.status = "threw"

\* C8: after a successful bytesSize() or copyBytesInto(), however many
\* calls and adds came before, the header's W is the widths of all entries
\* and its Length the number of characters of their rendering, and what
\* copyBytesInto wrote is the header, the framing and that rendering; for
\* the entries (0,0,65535), (1,1000,0), (2,5,3) that is W = [1,2,2], the
\* rows "00 0000 FFFF", "01 03E8 0000", "02 0005 0003" and Length = 38.
WorkedExample == << <<0, 0, 65535>>, <<1, 1000, 0>>, <<2, 5, 3>> >>

WorkedExampleRows ==
  <<"0", "0", " ", "0", "0", "0", "0", " ", "F", "F", "F", "F", "\n",
    "0", "1", " ", "0", "3", "E", "8", " ", "0", "0", "0", "0", "\n",
    "0", "2", " ", "0", "0", "0", "5", " ", "0", "0", "0", "3">>

C8_HeaderFollowsEntries ==
  /\ (SizeOk \/ WriteOk) =>
       /\ dictionary.W = ExpectedWidths(entries)
       /\ dictionary.Length = ExpectedLength(entries)
  /\ WriteOk =>
       /\ Len(WrittenPayload) = dictionary.Length
       /\ writeResult.bytes =
            dictionaryToString(dictionary) \o StreamKeyword
              \o WrittenPayload \o EndStreamKeyword
  /\ (entries = WorkedExample /\ (SizeOk \/ WriteOk)) =>
       /\ dictionary.W = <<1, 2, 2>>
       /\ dictionary.Length = 38
  /\ (entries = WorkedExample /\ WriteOk) =>
       WrittenPayload = WorkedExampleRows

C8_Witness ==
  /\ entries = WorkedExample
  /\ SizeOk /\ WriteOk

\* C9 as stated: a column whose values are all 0 gets width 0.
C9_ZeroColumnWidthZero ==
  (SizeOk \/ WriteOk) =>
    \A c \in 1..3 : AllZero(entries, c) => dictionary.W[c] = 0

\* C9, amended: a column whose values are all 0 gets width 1, and its
\* fields are written as the two hex digits "00".
C9_ZeroColumnWidthOne ==
  /\ (SizeOk \/ WriteOk) =>
       \A c \in 1..3 : AllZero(entries, c) => dictionary.W[c] = 1
  /\ WriteOk =>
       \A c \in 1..3 : AllZero(entries, c) =>
         \A i \in 1..Len(entries) :
           RowField(SplitRows(WrittenPayload, <<>>)[i], dictionary.W, c)
             = <<"0", "0">>

C9_Witness ==
  /\ WriteOk
  /\ Len(entries) = 2
  /\ AllZero(entries, 1)
  /\ ~AllZero(entries, 2)

(***************************************************************************)
(* Claims about PNGXObjectFactory                                          *)
(***************************************************************************)
EmbedOk == embedResult.status = "ok"

EmbedThrew == embedResult.status = "threw"

HasPalette == Len(image.palette) > 0

IndexedAlpha == image.transparency.kind = "indexed"

NativeAlpha == ~IndexedAlpha /\ image.hasAlphaChannel

\* The identities embedImageIn handed out.
NewReferences == (Len(registeredBefore) + 1)..Len(registered)

Count(b) == IF b THEN 1 ELSE 0

\* C5: a successful embed registers one primary resource, one palette
\* stream when the palette is not empty and one soft mask when the image is
\* indexed-alpha or native-alpha; the primary resource links a soft mask
\* exactly in the latter case; an opaque RGB image without palette gives
\* one resource in DeviceRGB, an RGBA image a soft mask over width*height
\* alpha bytes, an indexed image without transparency a palette and a
\* primary resource with predictor 15.
C5_ResourceCount ==
  EmbedOk =>
    LET primary == registered[embedResult.reference]
    IN  /\ SubSeq(registered, 1, Len(registeredBefore)) = registeredBefore
        /\ Cardinality(NewReferences) =
             1 + Count(HasPalette) + Count(IndexedAlpha \/ NativeAlpha)
        /\ embedResult.reference = Len(registered)
        /\ primary.kind = "image"
        /\ (primary.dict.SMask # NoReference) <=> (IndexedAlpha \/ NativeAlpha)
        /\ (IndexedAlpha \/ NativeAlpha) =>
             /\ primary.dict.SMask \in NewReferences
             /\ registered[primary.dict.SMask].kind = "smask"
             /\ Len(registered[primary.dict.SMask].content.bytes) =
                  image.width * image.height
        /\ HasPalette =>
             /\ primary.dict.ColorSpace.kind = "indexed"
             /\ primary.dict.ColorSpace.palette \in NewReferences
             /\ registered[primary.dict.ColorSpace.palette].kind = "palette"
        /\ ~HasPalette =>
             /\ primary.dict.ColorSpace.kind = "name"
             /\ primary.dict.ColorSpace.name = image.colorSpace
        /\ (image.colorType = 2 /\ ~HasPalette) =>
             primary.dict.ColorSpace.name = "DeviceRGB"
        /\ (image.colorType = 3 /\ ~IndexedAlpha) =>
             /\ primary.dict.DecodeParms.present
             /\ primary.dict.DecodeParms.Predictor = 15

C5_Witness ==
  /\ EmbedOk
  /\ IndexedAlpha
  /\ Len(image.palette) = 6
  /\ Len(registeredBefore) = 1
  /\ Len(registered) = 4

\* C6 as stated: when embedImageIn throws, the document holds the objects
\* it held before the call.
C6_FailureRegistersNothing ==
  EmbedThrew => registered = registeredBefore

\* C7 as stated: for an 8-bit image with alpha channel and c colour
\* components the colour buffer holds width*height*c bytes, the alpha
\* buffer width*height bytes, alpha byte k is the alpha byte of pixel k and
\* colour bytes c*k .. c*k+c-1 are the colour bytes of pixel k.
C7_SplitAlphaChannel ==
  (EmbedOk /\ NativeAlpha /\ image.bits = 8) =>
    LET c == image.colors
        n == image.width * image.height
        color == imgData.bytes
        alpha == alphaChannel.bytes
    IN  /\ Len(color) = n * c
        /\ Len(alpha) = n
        /\ \A k \in 0..(n - 1) :
             /\ alpha[k + 1] = image.pixels[(c + 1) * k + c + 1]
             /\ \A j \in 0..(c - 1) :
                  color[c * k + j + 1] = image.pixels[(c + 1) * k + j + 1]

\* C10 as stated: every object embedImageIn registered holds a Length
\* equal to the number of bytes of its payload.
C10_LengthIsPayloadLength ==
  \A r \in NewReferences :
    registered[r].dict.Length = registered[r].content.length

====
